---- MODULE Spec2Model ----
(***************************************************************************)
(* StreamForge gateway runtime: GatewayRuntime (runtime.py), KafkaManager  *)
(* (kafka_manager.py), AdapterManager (adapter_manager.py), the config     *)
(* repository (config.py) and the health endpoint (main.py,                *)
(* health_server.py).                                                      *)
(*                                                                         *)
(* Two threads share the AdapterManager: the caller of the runtime's API   *)
(* (main.py's _run, or any other caller of start/stop/restart) and the     *)
(* health-endpoint thread, which runs health_snapshot() per request.       *)
(* Steps are cut at the calls that release the interpreter lock: a broker  *)
(* probe, a container-engine call, one round of a loop.                    *)
(*                                                                         *)
(* The KafkaManager is also modelled under a direct caller that constructs *)
(* it with any bootstrap string, and the Modbus TCP adapter workload       *)
(* (adapters/adapter_modbus_tcp: main.py, modbus_tcp_adapter.py) as the    *)
(* process main.py runs and as an object whose methods a caller calls.     *)
(***************************************************************************)
EXTENDS Integers, Sequences, FiniteSets, TLC

\* ---------------------------------------------------------------- bounds
\* Usable entries of the tracking dict's entry array before an insert
\* compacts it (a popped entry keeps its slot until then, as in CPython).
DictUsable == 3
\* Containers the engine creates before every further run() fails.
MaxLaunches == 3
\* Longest adapters list of a config file.
MaxConfigs == 2
\* Rounds of _wait_for_port's loop that fit into start()'s 60 s.
StartTimeoutTicks == 2
\* Rounds of _wait_for_port's loop that fit into health()'s 1 s.
HealthTimeoutTicks == 1
\* Longest bootstrap string among those enumerated character by character.
MaxBootstrapLen == 3
\* Longest registers list of an adapter config.
MaxRegisters == 2
\* Cycles of the workload's loop that are told apart; later ones count as
\* the last.
MaxCycles == 2

\* ------------------------------------------------------------ input sets
AdapterIds == {"a1", "a2"}
\* A str is the sequence of its characters.
Bootstrap == <<"k", "a", "f", "k", "a", ":", "9", "0", "9", "2">>

\* config.py:11-17 AdapterConfig values a file may hold: two adapter ids, a
\* registered and an unregistered type, two config documents for one id.
Cfg(id, type, config) == [adapter_id |-> id, adapter_type |-> type, config |-> config]
AdapterConfig ==
  {Cfg("a1", "modbus_tcp", "c1"), Cfg("a1", "modbus_tcp", "c2"),
   Cfg("a2", "modbus_tcp", "c1"), Cfg("a2", "opcua", "c1")}

RECURSIVE SeqsUpTo(_, _)
SeqsUpTo(S, n) ==
  IF n = 0 THEN {<<>>}
  ELSE LET shorter == SeqsUpTo(S, n - 1)
       IN shorter \cup {Append(s, x) : s \in {t \in shorter : Len(t) = n - 1}, x \in S}

\* The config file as load() finds it: absent, not JSON, or a document with
\* an adapters list (which load() does not check for repeated adapter_id).
ConfigFiles ==
  {[kind |-> "absent", adapters |-> <<>>], [kind |-> "malformed", adapters |-> <<>>]}
  \cup {[kind |-> "doc", adapters |-> l] : l \in SeqsUpTo(AdapterConfig, MaxConfigs)}

\* ------------------------------------------------------ str and int
Rep(c, n) == [i \in 1..n |-> c]

DigitChars == {"0", "1", "2", "3", "4", "5", "6", "7", "8", "9"}
IsDigit(c) == c \in DigitChars
DigitVal(c) ==
  CASE c = "0" -> 0 [] c = "1" -> 1 [] c = "2" -> 2 [] c = "3" -> 3 [] c = "4" -> 4
    [] c = "5" -> 5 [] c = "6" -> 6 [] c = "7" -> 7 [] c = "8" -> 8 [] c = "9" -> 9

\* str.strip() for the whitespace of the input alphabet
RECURSIVE LStrip(_)
LStrip(s) == IF s # <<>> /\ Head(s) = " " THEN LStrip(Tail(s)) ELSE s
RECURSIVE RStrip(_)
RStrip(s) ==
  IF s # <<>> /\ s[Len(s)] = " " THEN RStrip(SubSeq(s, 1, Len(s) - 1)) ELSE s
Strip(s) == RStrip(LStrip(s))

\* A Python int has no width: it is its sign and its decimal digits without
\* leading zeros.
RECURSIVE Canon(_)
Canon(d) == IF Len(d) > 1 /\ Head(d) = "0" THEN Canon(Tail(d)) ELSE d
NoInt == [ok |-> FALSE, neg |-> FALSE, digits |-> <<>>]

\* The digits int() accepts after the sign: decimal digits, single
\* underscores only between two digits.
DigitBody(b) ==
  /\ b # <<>>
  /\ IsDigit(b[1]) /\ IsDigit(b[Len(b)])
  /\ \A i \in 1..Len(b) : IsDigit(b[i]) \/ b[i] = "_"
  /\ \A i \in 1..(Len(b) - 1) : ~(b[i] = "_" /\ b[i + 1] = "_")

\* kafka_manager.py:51 int(port_str): surrounding whitespace, an optional
\* sign, then the digits; ok = FALSE is ValueError.
PyInt(str) ==
  LET t == Strip(str)
      signed == t # <<>> /\ t[1] \in {"+", "-"}
      body == IF signed THEN Tail(t) ELSE t
  IN IF ~DigitBody(body) THEN NoInt
     ELSE LET d == Canon(SelectSeq(body, IsDigit))
          IN [ok |-> TRUE, neg |-> signed /\ t[1] = "-" /\ d # <<"0">>, digits |-> d]

\* Whether d <= e for two digit strings of one length.
RECURSIVE DigitsLeq(_, _)
DigitsLeq(d, e) ==
  IF d = <<>> THEN TRUE
  ELSE IF DigitVal(Head(d)) # DigitVal(Head(e)) THEN DigitVal(Head(d)) < DigitVal(Head(e))
  ELSE DigitsLeq(Tail(d), Tail(e))

\* The digits of the largest C long, 2^63 - 1.
LongMaxDigits ==
  <<"9", "2", "2", "3", "3", "7", "2", "0", "3", "6", "8", "5", "4", "7", "7", "5",
    "8", "0", "7">>
LongMinDigits ==
  <<"9", "2", "2", "3", "3", "7", "2", "0", "3", "6", "8", "5", "4", "7", "7", "5",
    "8", "0", "8">>

\* Whether the int converts to a C long, as socket.getaddrinfo needs of an
\* int port.
FitsCLong(n) ==
  LET lim == IF n.neg THEN LongMinDigits ELSE LongMaxDigits
  IN \/ Len(n.digits) < Len(lim)
     \/ Len(n.digits) = Len(lim) /\ DigitsLeq(n.digits, lim)

\* The labels of a host name, split at its dots.
RECURSIVE Labels(_)
Labels(host) ==
  IF \A i \in 1..Len(host) : host[i] # "."
  THEN <<host>>
  ELSE LET i == CHOOSE j \in 1..Len(host) :
                  host[j] = "." /\ \A k \in 1..(j - 1) : host[k] # "."
       IN <<SubSeq(host, 1, i - 1)>> \o Labels(SubSeq(host, i + 1, Len(host)))

\* The idna codec socket.getaddrinfo encodes an ASCII host with: every label
\* but the last has 1..63 characters, the last at most 63.
IdnaEncodes(host) ==
  LET l == Labels(host)
  IN /\ \A i \in 1..(Len(l) - 1) : Len(l[i]) > 0 /\ Len(l[i]) < 64
     /\ Len(l[Len(l)]) < 64

\* ------------------------------------------- KafkaManager construction
\* Bootstrap strings a KafkaManager is constructed with: every string of up
\* to MaxBootstrapLen characters of the alphabet, and longer ones with
\* several colons, signed, padded and zero-led ports, ports around the
\* largest C long, and host names with an empty or an overlong label.
BootstrapAlphabet == {"k", ":", "9", "0", "-", ".", "_", " "}
LongBootstraps ==
  {Bootstrap,
   <<"a", ":", "b", ":", "9", "0">>,
   <<"k", ":", "9", "0", ":">>,
   <<"k", ":", "+", "9", "0">>,
   <<"k", ":", " ", "-", "9", " ">>,
   <<"k", ":", "9", "_", "0">>,
   <<"k", ":", "0", "0", "7">>,
   <<"k", ":", "9", "x">>,
   <<"k", ":">> \o LongMaxDigits,
   <<"k", ":">> \o LongMinDigits,
   <<"k", ":", "-">> \o LongMinDigits,
   <<"k", ":">> \o Rep("9", 20),
   <<"a", ".", ".", "b", ":", "9", "0">>,
   <<"a", ".", "b", ".", ":", "9", "0">>,
   Rep("a", 64) \o <<":", "9", "0">>}
Bootstraps == SeqsUpTo(BootstrapAlphabet, MaxBootstrapLen) \cup LongBootstraps

HasColon(str) == \E i \in 1..Len(str) : str[i] = ":"

\* kafka_manager.py:49 bootstrap.rsplit(":", 1) of a string with a colon
RSplit_AtFirstColon(str) ==
  LET i == CHOOSE j \in 1..Len(str) : str[j] = ":" /\ \A k \in 1..(j - 1) : str[k] # ":"
  IN <<SubSeq(str, 1, i - 1), SubSeq(str, i + 1, Len(str))>>

RSplit(str) ==
  LET i == CHOOSE j \in 1..Len(str) :
             str[j] = ":" /\ \A k \in (j + 1)..Len(str) : str[k] # ":"
  IN <<SubSeq(str, 1, i - 1), SubSeq(str, i + 1, Len(str))>>

\* kafka_manager.py:44-55 _parse_bootstrap
ParseBootstrap(bootstrap) ==
  IF ~HasColon(bootstrap)
  THEN [err |-> "KafkaError", host |-> <<>>, port |-> NoInt]
  ELSE LET parts == RSplit(bootstrap)
           port == PyInt(parts[2])
       IN IF ~port.ok
          THEN [err |-> "KafkaError", host |-> <<>>, port |-> NoInt]
          ELSE [err |-> "none", host |-> parts[1], port |-> port]

\* The KafkaManager object: `made` once __init__ returned.
NoKafkaManager == [made |-> FALSE, bootstrap |-> <<>>, host |-> <<>>, port |-> NoInt]

\* kafka_manager.py:21-24 __init__
KafkaManagerInit(bootstrap) ==
  LET p == ParseBootstrap(bootstrap)
  IN IF p.err # "none"
     THEN [err |-> p.err, km |-> NoKafkaManager]
     ELSE [err |-> "none",
           km |-> [made |-> TRUE, bootstrap |-> bootstrap, host |-> p.host, port |-> p.port]]

\* kafka_manager.py:66-72 _can_connect: what socket.create_connection raises
\* that is no OSError. getaddrinfo encodes the host with the idna codec
\* (UnicodeError) and converts an int port to a C long (OverflowError)
\* before it resolves anything; every later failure is an OSError.
ProbeRaises(k) ==
  IF ~IdnaEncodes(k.host) THEN "UnicodeError"
  ELSE IF ~FitsCLong(k.port) THEN "OverflowError"
  ELSE "none"

\* kafka_manager.py:31-33 KafkaManager.stop: the manager after the call
KafkaStop_Forgets(k) == NoKafkaManager

KafkaStop(k) == k

\* ----------------------------------------------------------------- state
VARIABLES
  driver,       \* "main": main.py drives the runtime; "api": any caller of the API
  sdkInstalled, \* whether `import docker` succeeds in this process
  pc,           \* the caller thread's position
  configs,      \* start(): config.adapters as loaded
  idx,          \* start_all: 1-based index of the config the loop is at
  elapsed,      \* kafka.start(): rounds of _wait_for_port so far
  todo,         \* stop_all: list(self._containers.items()) still to visit
  lastResult,   \* how the caller's last API call ended
  client,       \* AdapterManager._client is not None
  slots,        \* AdapterManager._containers: the dict's entry array
  world,        \* the container engine: name -> container
  nextCid,      \* next fresh container id of the engine
  hpc,          \* the health thread's position
  h,            \* health_snapshot()'s locals
  hResult,      \* how the last health request ended
  log,          \* history of the caller's current API call
  km,           \* the KafkaManager object
  kc,           \* a direct caller of the KafkaManager: its call and its history
  wl,           \* the adapter workload (adapter_modbus_tcp): main() and the adapter
  fx,           \* one configured register on its way through _iter_registers and poll
  cf            \* one call of ConfigRepository.load on a config file

vars == <<driver, sdkInstalled, pc, configs, idx, elapsed, todo, lastResult,
          client, slots, world, nextCid, hpc, h, hResult, log, km, kc, wl, fx, cf>>

callerVars == <<pc, configs, idx, elapsed, todo, lastResult, log>>
healthVars == <<hpc, h, hResult>>
adapterVars == <<wl, fx>>
loaderVars == <<cf>>

\* --------------------------------------------------- the tracking dict
\* adapter_manager.py:25  self._containers: Dict[str, str] = {}
LiveIdx == {i \in 1..Len(slots) : slots[i].live}
Tracked == {slots[i].id : i \in LiveIdx}
DictUsed == Cardinality(LiveIdx)
HandleOf(id) == slots[CHOOSE i \in LiveIdx : slots[i].id = id].cid
TableOf(s) == {<<s[i].id, s[i].cid>> : i \in {j \in 1..Len(s) : s[j].live}}

\* The entry array without its popped entries, order kept (a dict resize).
RECURSIVE Compact(_)
Compact(s) ==
  IF s = <<>> THEN <<>>
  ELSE IF Head(s).live THEN <<Head(s)>> \o Compact(Tail(s)) ELSE Compact(Tail(s))

\* self._containers[adapter_id] = container.id, for a key not in the dict:
\* the entry is appended, after a resize when the array is used up.
DictInsert(s, id, cid) ==
  Append(IF Len(s) >= DictUsable THEN Compact(s) ELSE s,
         [id |-> id, cid |-> cid, live |-> TRUE])

\* self._containers.pop(adapter_id, None): the entry's slot is emptied
Tombstone == [id |-> "none", cid |-> 0, live |-> FALSE]
DictPop_Keeps(s, id) == s

DictPop(s, id) ==
  [i \in 1..Len(s) |-> IF s[i].live /\ s[i].id = id THEN Tombstone ELSE s[i]]

\* ------------------------------------------------- the container engine
NoContainer == [present |-> FALSE, cid |-> 0, status |-> "none", env |-> "none"]

\* adapter_manager.py:169-170 _container_name: f"sf-adapter-{adapter_id}"
ContainerName(id) == <<"sf-adapter-", id>>

\* the names the engine can hold a container under
ContainerNames == {ContainerName(id) : id \in AdapterIds}

NameOfCid(w, cid) == {n \in ContainerNames : w[n].present /\ w[n].cid = cid}

\* adapter_manager.py:104-112 _docker_client: the cached client, or a new
\* one; `import docker` fails when the SDK is absent, docker.from_env() may
\* raise whatever the environment is.
DockerClient(cached) ==
  IF cached THEN {[err |-> "none", client |-> TRUE]}
  ELSE IF ~sdkInstalled THEN {[err |-> "DockerSdkMissing", client |-> FALSE]}
  ELSE {[err |-> "none", client |-> TRUE], [err |-> "DockerException", client |-> FALSE]}

\* adapter_manager.py:35 `config.adapter_id in self._containers`
AlreadyTracked_Never(id) == FALSE

AlreadyTracked(id) == id \in Tracked

\* adapter_manager.py:172-177 _image_for ("none": AdapterStartError)
ImageFor(adapter_type) ==
  IF adapter_type = "modbus_tcp" THEN "streamforge/adapter_modbus_tcp:dev" ELSE "none"

\* adapter_manager.py:135-158 _ensure_container: every outcome of
\*   try: c = containers.get(name); if c.status != "running": c.start(); return c
\*   except Exception: return containers.run(name=name, environment=env, ...)
\* run() under a name that is in use is refused by the engine; any engine
\* call may fail.
EnsureContainer(w, name, env, fresh) ==
  LET c == w[name]
      runFails == [ok |-> FALSE, world |-> w, cid |-> 0, how |-> "failed"]
  IN IF ~c.present
     THEN {runFails}
          \cup (IF fresh <= MaxLaunches
                THEN {[ok |-> TRUE,
                       world |-> [w EXCEPT ![name] = [present |-> TRUE, cid |-> fresh,
                                                      status |-> "running", env |-> env]],
                       cid |-> fresh, how |-> "launched"]}
                ELSE {})
     ELSE {runFails}
          \cup (IF c.status = "running"
                THEN {[ok |-> TRUE, world |-> w, cid |-> c.cid, how |-> "adopted"]}
                ELSE {[ok |-> TRUE, world |-> [w EXCEPT ![name].status = "running"],
                       cid |-> c.cid, how |-> "restarted"]})

\* adapter_manager.py:160-166 _stop_container: every world after
\*   try: c = containers.get(id); c.stop(timeout=5); c.remove()
\*   except Exception: return None
StopContainer(w, cid) ==
  LET names == NameOfCid(w, cid)
  IN IF names = {} THEN {w}
     ELSE LET n == CHOOSE x \in names : TRUE
          IN {w,                                       \* get() or stop() raised
              [w EXCEPT ![n].status = "exited"],       \* remove() raised
              [w EXCEPT ![n] = NoContainer]}           \* stopped and removed

\* ------------------------------------------------------------- history
\* What the caller's current call has done so far: `loaded` load() returned,
\* `probes` broker probes made, `ready` kafka.start() returned, `inStartAll`
\* start_all was called, `touched` the ids _ensure_container was called for,
\* `failIdx` the index of the config start_all raised at, `stopAttempted`
\* the handles _stop_container was called for, `adaptersDone` stop_all
\* returned, `kafkaStop` kafka.stop() was called, `target` restart's
\* argument; `tableAtCall` and `cidAtCall` are the tracking table and the
\* engine's next id when the call began.
NoLog ==
  [op |-> "none", loaded |-> FALSE, probes |-> 0, ready |-> FALSE,
   inStartAll |-> FALSE, touched |-> {}, tableAtCall |-> {}, cidAtCall |-> 0,
   stopAttempted |-> {}, adaptersDone |-> FALSE, kafkaStop |-> FALSE,
   failIdx |-> 0, target |-> "none"]

NewLog(op) ==
  [NoLog EXCEPT !.op = op, !.tableAtCall = TableOf(slots), !.cidAtCall = nextCid]

Result(op, err, id) == [op |-> op, err |-> err, id |-> id]
NoResult == Result("none", "none", "none")

\* health_snapshot()'s locals: `elapsed` the rounds of kafka.health()'s wait,
\* `kafka` its result, `used` and `pos` the dict iterator's size at creation
\* and its place in the entry array, `cur` the entry the loop body holds,
\* `states` adapter_states. History: `obs` what each lookup gave, `mutated`
\* the table was written while the iterator was live, `tracked` the ids
\* tracked when health() returned.
NoStates == [id \in {} |-> "none"]
NoKafkaHealth == [status |-> "none", bootstrap |-> <<>>, reachable |-> FALSE]
NoHealth ==
  [elapsed |-> 0, kafka |-> NoKafkaHealth, pos |-> 0, used |-> 0,
   cur |-> <<"none", 0>>, states |-> NoStates, obs |-> NoStates,
   mutated |-> FALSE, tracked |-> {}]
NoSnapshot == [kafka |-> NoKafkaHealth, adapters |-> [status |-> "none", adapters |-> NoStates]]
NoHealthResult == [kind |-> "none", err |-> "none", snap |-> NoSnapshot]

\* A direct caller of the KafkaManager: `arg` the bootstrap it constructs the
\* manager with, `op` its current call, `elapsed` the rounds of
\* _wait_for_port so far. History of the call: `probes` and `hits` the
\* _can_connect() calls made and those that connected, `timedOut` the wait
\* ended on its deadline, `err` what the call raised, `health` what health()
\* returned, `kmAtCall` the manager when the call began.
NoKafkaCall ==
  [pc |-> "off", arg |-> <<>>, op |-> "none", elapsed |-> 0, probes |-> 0, hits |-> 0,
   timedOut |-> FALSE, err |-> "none", health |-> NoKafkaHealth,
   kmAtCall |-> NoKafkaManager]

NoWorkload == [pc |-> "off"]
NoRegister == [pc |-> "off"]
NoLoad == [pc |-> "off"]

\* main.py:32,49 the gateway process constructs its KafkaManager from the
\* bootstrap it was given.
InitOf(d) ==
  /\ driver = d
  /\ km = KafkaManagerInit(Bootstrap).km
  /\ kc = NoKafkaCall
  /\ wl = NoWorkload
  /\ fx = NoRegister
  /\ cf = NoLoad
  /\ sdkInstalled \in BOOLEAN
  /\ pc = "idle"
  /\ configs = <<>>
  /\ idx = 0
  /\ elapsed = 0
  /\ todo = <<>>
  /\ lastResult = NoResult
  /\ client = FALSE
  /\ slots = <<>>
  /\ world = [n \in ContainerNames |-> NoContainer]
  /\ nextCid = 1
  /\ hpc = "idle"
  /\ h = NoHealth
  /\ hResult = NoHealthResult
  /\ log = NoLog

\* ------------------------------------------------------ pure functions
\* config.py:45-66 ConfigRepository.load: ConfigError for an absent file or
\* content that is not JSON, else the adapters in file order.
ConfigLoad(file) ==
  IF file.kind = "absent" \/ file.kind = "malformed"
  THEN [err |-> "ConfigError", adapters |-> <<>>]
  ELSE [err |-> "none", adapters |-> file.adapters]

\* kafka_manager.py:57-72 one round of _wait_for_port's loop, `el` rounds
\* into a timeout of `timeout` rounds: the loop ends with False once the
\* time is up, else _can_connect() is tried and a failure sleeps a round.
WaitRound(el, timeout) ==
  IF el < timeout
  THEN {[done |-> TRUE, reachable |-> TRUE, elapsed |-> el, probed |-> TRUE],
        [done |-> FALSE, reachable |-> FALSE, elapsed |-> el + 1, probed |-> TRUE]}
  ELSE {[done |-> TRUE, reachable |-> FALSE, elapsed |-> el, probed |-> FALSE]}

\* kafka_manager.py:28-29 KafkaManager.start after _wait_for_port returned
KafkaStartOutcome_NeverRaises(reachable) == "none"

KafkaStartOutcome(reachable) == IF reachable THEN "none" ELSE "KafkaError"

\* runtime.py:37-42 the order of start(): the step after each step
StepAfter_AdaptersFirst(step) ==
  CASE step = "load" -> "start_all"
    [] step = "start_all" -> "kafka_wait"
    [] step = "kafka_wait" -> "returned"

StepAfter(step) ==
  CASE step = "load" -> "kafka_wait"
    [] step = "kafka_wait" -> "start_all"
    [] step = "start_all" -> "returned"

\* list(self._containers.items())
RECURSIVE ItemsOf(_)
ItemsOf(s) ==
  IF s = <<>> THEN <<>>
  ELSE IF Head(s).live THEN <<<<Head(s).id, Head(s).cid>>>> \o ItemsOf(Tail(s))
       ELSE ItemsOf(Tail(s))

\* adapter_manager.py:88-93 the status health() records for a lookup
StatusOf(obs) == IF obs = "lookup_failed" THEN "missing" ELSE obs

\* adapter_manager.py:97 the overall status of health()
HealthOverall_Any(states) ==
  IF \E id \in DOMAIN states : states[id] = "running" THEN "healthy" ELSE "degraded"

HealthOverall(states) ==
  IF \A id \in DOMAIN states : states[id] = "running" THEN "healthy" ELSE "degraded"

\* kafka_manager.py:35-42 KafkaManager.health's result
KafkaHealth(k, reachable) ==
  [status |-> IF reachable THEN "healthy" ELSE "failed",
   bootstrap |-> k.bootstrap, reachable |-> reachable]

\* runtime.py:54-59 the dict health_snapshot() returns
Snapshot(kafka, states) ==
  [kafka |-> kafka,
   adapters |-> [status |-> HealthOverall(states), adapters |-> states]]

\* The caller's call ends by raising `err` (naming adapter `id`).
Raise(op, err, id) ==
  /\ pc' = "returned"
  /\ lastResult' = Result(op, err, id)

\* The caller's call returns normally.
Return(op) ==
  /\ pc' = "returned"
  /\ lastResult' = Result(op, "none", "none")

\* A write to the tracking dict while health() holds an iterator over it.
MarkMutation ==
  h' = IF hpc \in {"iter", "lookup"} THEN [h EXCEPT !.mutated = TRUE] ELSE h

\* main.py:19-26 calls start() once and stop() from the finally clause of
\* its serving loop; any other caller may call whatever it likes.
MayCall_StopOnFailure(op) ==
  \/ driver = "api" /\ pc = "idle"
  \/ driver = "main" /\ op = "start" /\ pc = "idle"
  \/ driver = "main" /\ op = "stop" /\ pc \in {"serving", "returned"}

MayCall(op) ==
  \/ driver = "api" /\ pc = "idle"
  \/ driver = "main" /\ op = "start" /\ pc = "idle"
  \/ driver = "main" /\ op = "stop" /\ pc = "serving"

\* ----------------------------------------------- GatewayRuntime.start
\* runtime.py:34-38 start() up to `config = self._config_repo.load()`
StartLoadConfig ==
  /\ MayCall("start")
  /\ \E file \in ConfigFiles :
       LET r == ConfigLoad(file)
       IN IF r.err # "none"
          THEN /\ Raise("start", r.err, "none")
               /\ log' = NewLog("start")
               /\ UNCHANGED <<configs, elapsed>>
          ELSE /\ pc' = StepAfter("load")
               /\ configs' = r.adapters
               /\ elapsed' = 0
               /\ log' = [NewLog("start") EXCEPT !.loaded = TRUE]
               /\ lastResult' = NoResult
  /\ idx' = 0
  /\ UNCHANGED <<km, kc, adapterVars, loaderVars, driver, sdkInstalled, todo, client, slots, world, nextCid, healthVars>>

\* runtime.py:39 / kafka_manager.py:26-29 KafkaManager.start, one round of
\* _wait_for_port(timeout_s=60)
StartKafka ==
  /\ pc = "kafka_wait"
  /\ \E r \in WaitRound(elapsed, StartTimeoutTicks) :
       /\ elapsed' = r.elapsed
       /\ IF ~r.done
          THEN /\ log' = [log EXCEPT !.probes = @ + 1]
               /\ UNCHANGED <<pc, lastResult>>
          ELSE IF KafkaStartOutcome(r.reachable) # "none"
          THEN /\ Raise("start", KafkaStartOutcome(r.reachable), "none")
               /\ UNCHANGED log
          ELSE /\ log' = [log EXCEPT !.probes = @ + (IF r.probed THEN 1 ELSE 0),
                                     !.ready = r.reachable]
               /\ IF StepAfter("kafka_wait") = "returned"
                  THEN Return("start")
                  ELSE pc' = StepAfter("kafka_wait") /\ UNCHANGED lastResult
  /\ UNCHANGED <<km, kc, adapterVars, loaderVars, driver, sdkInstalled, configs, idx, todo, client, slots, world,
                 nextCid, healthVars>>

\* adapter_manager.py:29-32 start_all up to its loop
StartAllEnter ==
  /\ pc = "start_all"
  /\ \E c \in DockerClient(client) :
       /\ client' = c.client
       /\ log' = [log EXCEPT !.inStartAll = TRUE]
       /\ IF c.err # "none"
          THEN /\ Raise("start", c.err, "none")
               /\ UNCHANGED idx
          ELSE /\ pc' = "start_all_loop"
               /\ idx' = 1
               /\ UNCHANGED lastResult
  /\ UNCHANGED <<km, kc, adapterVars, loaderVars, driver, sdkInstalled, configs, elapsed, todo, slots, world, nextCid,
                 healthVars>>

\* adapter_manager.py:34-63 one round of start_all's loop, and its return
StartAllIter ==
  /\ pc = "start_all_loop"
  /\ IF idx > Len(configs)
     THEN /\ IF StepAfter("start_all") = "returned"
             THEN Return("start")
             ELSE pc' = StepAfter("start_all") /\ UNCHANGED lastResult
          /\ UNCHANGED <<idx, slots, world, nextCid, log, h>>
     ELSE LET config == configs[idx]
          IN IF AlreadyTracked(config.adapter_id)
             THEN /\ Raise("start", "AdapterAlreadyRunning", config.adapter_id)
                  /\ log' = [log EXCEPT !.failIdx = idx]
                  /\ UNCHANGED <<idx, slots, world, nextCid, h>>
             ELSE IF ImageFor(config.adapter_type) = "none"
             THEN /\ Raise("start", "UnsupportedAdapterType", config.adapter_id)
                  /\ log' = [log EXCEPT !.failIdx = idx]
                  /\ UNCHANGED <<idx, slots, world, nextCid, h>>
             ELSE \E e \in EnsureContainer(world, ContainerName(config.adapter_id),
                                           config.config, nextCid) :
                    /\ world' = e.world
                    /\ nextCid' = IF e.how = "launched" THEN nextCid + 1 ELSE nextCid
                    /\ IF e.ok
                       THEN /\ slots' = DictInsert(slots, config.adapter_id, e.cid)
                            /\ MarkMutation
                            /\ idx' = idx + 1
                            /\ log' = [log EXCEPT !.touched = @ \cup {config.adapter_id}]
                            /\ UNCHANGED <<pc, lastResult>>
                       ELSE /\ Raise("start", "DockerAPIError", config.adapter_id)
                            /\ log' = [log EXCEPT !.failIdx = idx,
                                                  !.touched = @ \cup {config.adapter_id}]
                            /\ UNCHANGED <<idx, slots, h>>
  /\ UNCHANGED <<km, kc, adapterVars, loaderVars, driver, sdkInstalled, configs, elapsed, todo, client, hpc, hResult>>

\* ------------------------------------------------ GatewayRuntime.stop
\* runtime.py:44-47 / adapter_manager.py:65-68 stop() into stop_all, up to
\* the loop over list(self._containers.items())
StopEnter ==
  /\ MayCall("stop")
  /\ \E c \in DockerClient(client) :
       /\ client' = c.client
       /\ IF c.err # "none"
          THEN /\ Raise("stop", c.err, "none")
               /\ UNCHANGED todo
          ELSE /\ pc' = "stop_all_loop"
               /\ todo' = ItemsOf(slots)
               /\ lastResult' = NoResult
  /\ log' = NewLog("stop")
  /\ UNCHANGED <<km, kc, adapterVars, loaderVars, driver, sdkInstalled, configs, idx, elapsed, slots, world, nextCid,
                 healthVars>>

\* adapter_manager.py:68-70 one round of stop_all's loop, and its return
\* into runtime.py:48
StopAllIter ==
  /\ pc = "stop_all_loop"
  /\ IF todo = <<>>
     THEN /\ pc' = "kafka_stop"
          /\ log' = [log EXCEPT !.adaptersDone = TRUE]
          /\ UNCHANGED <<todo, slots, world, h>>
     ELSE LET adapter_id == Head(todo)[1]
              container_id == Head(todo)[2]
          IN /\ world' \in StopContainer(world, container_id)
             /\ slots' = DictPop(slots, adapter_id)
             /\ MarkMutation
             /\ todo' = Tail(todo)
             /\ log' = [log EXCEPT !.stopAttempted = @ \cup {container_id}]
             /\ UNCHANGED pc
  /\ UNCHANGED <<km, kc, adapterVars, loaderVars, driver, sdkInstalled, configs, idx, elapsed, lastResult, client,
                 nextCid, hpc, hResult>>

\* runtime.py:48-49 / kafka_manager.py:31-33 KafkaManager.stop, and the
\* return of stop()
StopKafka ==
  /\ pc = "kafka_stop"
  /\ Return("stop")
  /\ log' = [log EXCEPT !.kafkaStop = TRUE]
  /\ km' = KafkaStop(km)
  /\ UNCHANGED <<kc, adapterVars, loaderVars, driver, sdkInstalled, configs, idx, elapsed, todo, client, slots,
                 world, nextCid, healthVars>>

\* ---------------------------------------------- AdapterManager.restart
\* adapter_manager.py:72-81
Restart(adapter_id) ==
  /\ MayCall("restart")
  /\ IF adapter_id \notin Tracked
     THEN /\ Raise("restart", "AdapterNotFound", adapter_id)
          /\ log' = [NewLog("restart") EXCEPT !.target = adapter_id]
          /\ UNCHANGED <<client, slots, world, h>>
     ELSE \E c \in DockerClient(client) :
            /\ client' = c.client
            /\ IF c.err # "none"
               THEN /\ Raise("restart", c.err, adapter_id)
                    /\ log' = [NewLog("restart") EXCEPT !.target = adapter_id]
                    /\ UNCHANGED <<slots, world, h>>
               ELSE LET container_id == HandleOf(adapter_id)
                    IN /\ world' \in StopContainer(world, container_id)
                       /\ slots' = DictPop(slots, adapter_id)
                       /\ MarkMutation
                       /\ log' = [NewLog("restart") EXCEPT
                                    !.target = adapter_id,
                                    !.stopAttempted = {container_id}]
                       /\ Raise("restart", "AdapterRestartRequiresConfig", adapter_id)
  /\ UNCHANGED <<km, kc, adapterVars, loaderVars, driver, sdkInstalled, configs, idx, elapsed, todo, nextCid, hpc,
                 hResult>>

\* The call is over: its locals are gone.
ForgetCall ==
  /\ configs' = <<>>
  /\ idx' = 0
  /\ elapsed' = 0
  /\ todo' = <<>>
  /\ lastResult' = NoResult
  /\ log' = NoLog

\* A caller other than main.py goes on after the call, whatever its end.
ApiContinue ==
  /\ driver = "api"
  /\ pc = "returned"
  /\ pc' = "idle"
  /\ ForgetCall
  /\ UNCHANGED <<km, kc, adapterVars, loaderVars, driver, sdkInstalled, client, slots, world, nextCid, healthVars>>

\* main.py:21-24 after start() returned, _run sleeps in its loop
MainServe ==
  /\ driver = "main"
  /\ pc = "returned"
  /\ lastResult.op = "start" /\ lastResult.err = "none"
  /\ pc' = "serving"
  /\ ForgetCall
  /\ UNCHANGED <<km, kc, adapterVars, loaderVars, driver, sdkInstalled, client, slots, world, nextCid, healthVars>>

\* main.py:19-26,60,63 the process ends when start() raised (it is called
\* outside the try) or when the finally clause's stop() is over; the health
\* thread is a daemon thread and ends with it.
ProcessExit ==
  /\ driver = "main"
  /\ pc = "returned"
  /\ \/ lastResult.op = "stop"
     \/ lastResult.op = "start" /\ lastResult.err # "none"
  /\ pc' = "exited"
  /\ ForgetCall
  /\ hpc' = "exited"
  /\ h' = NoHealth
  /\ hResult' = NoHealthResult
  /\ UNCHANGED <<km, kc, adapterVars, loaderVars, driver, sdkInstalled, client, slots, world, nextCid>>

\* ------------------------------------ GatewayRuntime.health_snapshot
\* health_server.py:13-19 a GET on a health path calls get_health()
HealthRequest ==
  /\ hpc = "idle"
  /\ hpc' = "kafka"
  /\ UNCHANGED <<km, kc, adapterVars, loaderVars, driver, sdkInstalled, callerVars, client, slots, world, nextCid,
                 h, hResult>>

\* health_server.py:19-26 get_health() returned and the response is sent,
\* or it raised and the request ends without one; the server goes on.
HealthRespond ==
  /\ hpc = "done"
  /\ hpc' = "idle"
  /\ h' = NoHealth
  /\ hResult' = NoHealthResult
  /\ UNCHANGED <<km, kc, adapterVars, loaderVars, driver, sdkInstalled, callerVars, client, slots, world, nextCid>>

\* runtime.py:57 / kafka_manager.py:35-42 KafkaManager.health, one round of
\* _wait_for_port(timeout_s=1)
HealthKafka ==
  /\ hpc = "kafka"
  /\ \E r \in WaitRound(h.elapsed, HealthTimeoutTicks) :
       IF r.done
       THEN /\ hpc' = "adapters"
            /\ h' = [h EXCEPT !.kafka = KafkaHealth(km, r.reachable)]
       ELSE /\ h' = [h EXCEPT !.elapsed = r.elapsed]
            /\ UNCHANGED hpc
  /\ UNCHANGED <<km, kc, adapterVars, loaderVars, driver, sdkInstalled, callerVars, client, slots, world, nextCid,
                 hResult>>

\* runtime.py:58 / adapter_manager.py:83-87 AdapterManager.health up to the
\* iterator over self._containers.items()
HealthAdapters ==
  /\ hpc = "adapters"
  /\ \E c \in DockerClient(client) :
       /\ client' = c.client
       /\ IF c.err # "none"
          THEN /\ hpc' = "done"
               /\ hResult' = [kind |-> "raised", err |-> c.err, snap |-> NoSnapshot]
               /\ UNCHANGED h
          ELSE /\ hpc' = "iter"
               /\ h' = [h EXCEPT !.used = DictUsed, !.pos = 0]
               /\ UNCHANGED hResult
  /\ UNCHANGED <<km, kc, adapterVars, loaderVars, driver, sdkInstalled, callerVars, slots, world, nextCid>>

\* adapter_manager.py:87,97-102 the dict iterator's next(): it raises
\* RuntimeError when the dict's size is not the size it was created with,
\* else yields the next entry still in the array, else the loop ends and
\* health() and health_snapshot() return.
HealthNext ==
  /\ hpc = "iter"
  /\ IF DictUsed # h.used
     THEN /\ hpc' = "done"
          /\ hResult' = [kind |-> "raised", err |-> "RuntimeError", snap |-> NoSnapshot]
          /\ UNCHANGED h
     ELSE LET rest == {i \in LiveIdx : i > h.pos}
          IN IF rest = {}
             THEN /\ hpc' = "done"
                  /\ hResult' = [kind |-> "snapshot", err |-> "none",
                                 snap |-> Snapshot(h.kafka, h.states)]
                  /\ h' = [h EXCEPT !.tracked = Tracked]
             ELSE LET i == CHOOSE j \in rest : \A k \in rest : j <= k
                  IN /\ hpc' = "lookup"
                     /\ h' = [h EXCEPT !.pos = i, !.cur = <<slots[i].id, slots[i].cid>>]
                     /\ UNCHANGED hResult
  /\ UNCHANGED <<km, kc, adapterVars, loaderVars, driver, sdkInstalled, callerVars, client, slots, world, nextCid>>

\* What client.containers.get(container_id) gives: the container's status,
\* or an exception (no such container, or the engine not answering).
LookupStatus_Stored(w, cid) == {"running"}

LookupStatus(w, cid) ==
  {"lookup_failed"} \cup {w[n].status : n \in NameOfCid(w, cid)}

\* adapter_manager.py:88-95 the loop body of health(): the status is
\* "missing" when the lookup raised
HealthLookup ==
  /\ hpc = "lookup"
  /\ \E obs \in LookupStatus(world, h.cur[2]) :
       LET adapter_id == h.cur[1]
       IN h' = [h EXCEPT
                  !.states = [id \in DOMAIN @ \cup {adapter_id} |->
                                IF id = adapter_id THEN StatusOf(obs) ELSE @[id]],
                  !.obs = [id \in DOMAIN @ \cup {adapter_id} |->
                             IF id = adapter_id THEN obs ELSE @[id]],
                  !.cur = <<"none", 0>>]
  /\ hpc' = "iter"
  /\ UNCHANGED <<km, kc, adapterVars, loaderVars, driver, sdkInstalled, callerVars, client, slots, world, nextCid,
                 hResult>>

\* ------------------------------------------------------ the workloads
\* adapters/adapter_modbus_tcp/main.py:25-36 a failure of connect or of a
\* stage of the loop ends the workload's process
WorkloadCrash(n) ==
  /\ world[n].present
  /\ world[n].status = "running"
  /\ world' = [world EXCEPT ![n].status = "restarting"]
  /\ UNCHANGED <<km, kc, adapterVars, loaderVars, driver, sdkInstalled, callerVars, client, slots, nextCid, healthVars>>

\* adapter_manager.py:157 restart_policy unless-stopped: the engine starts
\* a workload again that ended by itself
WorkloadRecover(n) ==
  /\ world[n].present
  /\ world[n].status = "restarting"
  /\ world' = [world EXCEPT ![n].status = "running"]
  /\ UNCHANGED <<km, kc, adapterVars, loaderVars, driver, sdkInstalled, callerVars, client, slots, nextCid, healthVars>>

\* ------------------------------------- KafkaManager under a direct caller
gatewayVars == <<driver, sdkInstalled, callerVars, client, slots, world, nextCid,
                 healthVars>>

\* kafka_manager.py:21-24 KafkaManager(bootstrap)
KafkaNew ==
  /\ kc.pc = "new"
  /\ LET made == KafkaManagerInit(kc.arg)
     IN /\ km' = made.km
        /\ kc' = [kc EXCEPT !.pc = IF made.err = "none" THEN "idle" ELSE "dead",
                            !.op = "init", !.err = made.err]
  /\ UNCHANGED <<gatewayVars, adapterVars, loaderVars>>

\* The caller's next call begins.
KafkaCall(op) ==
  [kc EXCEPT !.op = op, !.elapsed = 0, !.probes = 0, !.hits = 0, !.timedOut = FALSE,
             !.err = "none", !.health = NoKafkaHealth, !.kmAtCall = km]

\* kafka_manager.py:57-64 one round of _wait_for_port in call `c`: the call
\* after it, with `done` set when the wait ended and `reachable` its value.
WaitStep(c, k, timeout) ==
  IF c.elapsed < timeout /\ ProbeRaises(k) # "none"
  THEN {[call |-> [c EXCEPT !.probes = @ + 1, !.err = ProbeRaises(k), !.pc = "returned"],
         done |-> TRUE, reachable |-> FALSE]}
  ELSE {[call |-> [c EXCEPT !.elapsed = r.elapsed,
                            !.probes = @ + (IF r.probed THEN 1 ELSE 0),
                            !.hits = @ + (IF r.reachable THEN 1 ELSE 0),
                            !.timedOut = r.done /\ ~r.probed],
          done |-> r.done, reachable |-> r.reachable] : r \in WaitRound(c.elapsed, timeout)}

\* kafka_manager.py:26-29 start(): one round of its wait, and its end
KafkaStartRound ==
  /\ kc.pc \in {"idle", "start_wait"}
  /\ LET c == IF kc.pc = "idle" THEN [KafkaCall("start") EXCEPT !.pc = "start_wait"] ELSE kc
     IN \E w \in WaitStep(c, km, StartTimeoutTicks) :
          kc' = IF w.call.pc = "returned" \/ ~w.done THEN w.call
                ELSE [w.call EXCEPT !.pc = "returned", !.err = KafkaStartOutcome(w.reachable)]
  /\ UNCHANGED <<gatewayVars, km, adapterVars, loaderVars>>

\* kafka_manager.py:35-42 health(): one round of its wait, and its end
KafkaHealthRound ==
  /\ kc.pc \in {"idle", "health_wait"}
  /\ LET c == IF kc.pc = "idle" THEN [KafkaCall("health") EXCEPT !.pc = "health_wait"] ELSE kc
     IN \E w \in WaitStep(c, km, HealthTimeoutTicks) :
          kc' = IF w.call.pc = "returned" \/ ~w.done THEN w.call
                ELSE [w.call EXCEPT !.pc = "returned", !.health = KafkaHealth(km, w.reachable)]
  /\ UNCHANGED <<gatewayVars, km, adapterVars, loaderVars>>

\* kafka_manager.py:31-33 stop()
KafkaStopCall ==
  /\ kc.pc = "idle"
  /\ kc' = [KafkaCall("stop") EXCEPT !.pc = "returned"]
  /\ km' = KafkaStop(km)
  /\ UNCHANGED <<gatewayVars, adapterVars, loaderVars>>

\* The caller takes the call's result; its history is dropped.
KafkaForget ==
  /\ kc.pc = "returned"
  /\ kc' = [NoKafkaCall EXCEPT !.pc = "idle", !.arg = kc.arg]
  /\ UNCHANGED <<gatewayVars, km, adapterVars, loaderVars>>

\* ------------------------------------------------ the Modbus TCP adapter
\* modbus_tcp_adapter.py:141 the 1-based number of the first holding register
HoldingBase == 40001

\* modbus_tcp_adapter.py:138-143 _normalize_address
NormalizeAddress_From40000(address) ==
  IF address >= HoldingBase THEN address - (HoldingBase - 1) ELSE address

NormalizeAddress(address) ==
  IF address >= HoldingBase THEN address - HoldingBase ELSE address

\* A register item of the config: `type` is "absent" when the item has no
\* "type" key (modbus_tcp_adapter.py:134 item.get("type", "uint16")).
Item(address, param, type) == [address |-> address, param |-> param, type |-> type, unit |-> "u"]

\* modbus_tcp_adapter.py:130-136 the RegisterSpec _iter_registers yields
RegisterSpec(item) ==
  [address |-> NormalizeAddress(item.address), param |-> item.param,
   data_type |-> IF item.type = "absent" THEN "uint16" ELSE item.type,
   unit |-> item.unit]

\* modbus_tcp_adapter.py:56 list(self._iter_registers())
IterRegisters(registers) == [i \in 1..Len(registers) |-> RegisterSpec(registers[i])]

\* modbus_tcp_adapter.py:60-74 the count of the read poll() issues for a spec
ReadCount(data_type) == IF data_type = "float32" THEN 2 ELSE 1

\* modbus_tcp_adapter.py:148 the four bytes packed from two registers
Packed(registers) ==
  <<registers[1] \div 256, registers[1] % 256, registers[2] \div 256, registers[2] % 256>>

\* modbus_tcp_adapter.py:149 unpack(">f", packed): the fields of the
\* big-endian IEEE-754 single the four bytes are
Unpack(b) ==
  [kind |-> "float", int |-> 0,
   sign |-> b[1] \div 128,
   exponent |-> (b[1] % 128) * 2 + b[2] \div 128,
   fraction |-> (b[2] % 128) * 65536 + b[3] * 256 + b[4]]

\* modbus_tcp_adapter.py:145-149 _decode_float32
DecodeFloat32_LowWordFirst(registers) == Unpack(Packed(<<registers[2], registers[1]>>))

DecodeFloat32(registers) == Unpack(Packed(registers))

IntValue(n) == [kind |-> "int", int |-> n, sign |-> 0, exponent |-> 0, fraction |-> 0]

\* modbus_tcp_adapter.py:68,77 the value poll() takes from a response
ValueOf(data_type, registers) ==
  IF data_type = "float32" THEN DecodeFloat32(registers) ELSE IntValue(registers[1])

\* ------------------------------------------ the workload: main() and adapter
\* Register items of a config: both address ranges, both data types, two
\* items with one param name.
RegisterItems ==
  {Item(40001, "t", "uint16"), Item(0, "t", "float32"),
   Item(2, "p", "absent"), Item(40004, "p", "float32")}

\* The adapter's config: its registers, whether it has an "output" section,
\* and its poll_interval_ms ("ok", "bad": no integer, "negative").
WorkloadConfigs ==
  {[registers |-> l, output |-> o, interval |-> t, asset_id |-> "asset-1"] :
     l \in SeqsUpTo(RegisterItems, MaxRegisters), o \in {"ok", "missing"},
     t \in {"ok", "bad", "negative"}}

\* What the process can import: everything, all but pymodbus, all but kafka.
WorkloadEnvs == {"ok", "no_pymodbus", "no_kafka"}

\* The word the device holds at an offset.
DeviceWord(offset) == 16456 + offset

\* A read_holding_registers call: the registers, an error response, or an
\* exception of the client.
ReadResponses(address, count) ==
  {[kind |-> "ok", registers |-> [j \in 1..count |-> DeviceWord(address + j - 1)]],
   [kind |-> "error", registers |-> <<>>],
   [kind |-> "raise", registers |-> <<>>]}

\* readings[param] = payload on a dict in insertion order: an existing key
\* keeps its place and takes the new payload.
DictSet(d, param, value, unit) ==
  LET entry == [param |-> param, value |-> value, unit |-> unit]
  IN IF \E i \in 1..Len(d) : d[i].param = param
     THEN [i \in 1..Len(d) |-> IF d[i].param = param THEN entry ELSE d[i]]
     ELSE Append(d, entry)

\* modbus_tcp_adapter.py:59-79 poll()'s loop body after the read of `spec`
\* answered `response`: the error it raises, or the readings so far.
AfterRead_SkipsErrors(readings, spec, response) ==
  IF response.kind = "raise"
  THEN [err |-> "ModbusException", address |-> spec.address, readings |-> <<>>]
  ELSE IF response.kind = "error"
  THEN [err |-> "none", address |-> 0, readings |-> readings]
  ELSE [err |-> "none", address |-> 0,
        readings |-> DictSet(readings, spec.param,
                             ValueOf(spec.data_type, response.registers), spec.unit)]

AfterRead(readings, spec, response) ==
  IF response.kind = "raise"
  THEN [err |-> "ModbusException", address |-> spec.address, readings |-> <<>>]
  ELSE IF response.kind = "error"
  THEN [err |-> "ReadError", address |-> spec.address, readings |-> <<>>]
  ELSE [err |-> "none", address |-> 0,
        readings |-> DictSet(readings, spec.param,
                             ValueOf(spec.data_type, response.registers), spec.unit)]

NoMessage == [asset_id |-> "none", gateway_time |-> "none", readings |-> <<>>]

\* modbus_tcp_adapter.py:83-106 transform
Transform(config, raw) ==
  IF config.output = "missing"
  THEN [err |-> "KeyError", message |-> NoMessage]
  ELSE [err |-> "none",
        message |-> [asset_id |-> config.asset_id, gateway_time |-> "now",
                     readings |-> [i \in 1..Len(raw) |->
                                     [parameter |-> raw[i].param, value |-> raw[i].value,
                                      unit |-> raw[i].unit, quality |-> "GOOD",
                                      device_time |-> "null"]]]]

\* modbus_tcp_adapter.py:115 whether publish() constructs a KafkaProducer
NeedsProducer_Always(producer) == TRUE

NeedsProducer(producer) == producer = 0

\* main.py:31-36 the stage that follows a stage in the loop
StageAfter_PublishFirst(stage) ==
  CASE stage = "poll" -> "publish"
    [] stage = "publish" -> "transform"
    [] stage = "transform" -> "sleep"
    [] stage = "sleep" -> "poll"

StageAfter(stage) ==
  CASE stage = "poll" -> "transform"
    [] stage = "transform" -> "publish"
    [] stage = "publish" -> "sleep"
    [] stage = "sleep" -> "poll"

\* The workload: `driver` is "main" (main.py runs the adapter) or "api" (a
\* caller of the adapter's methods, in any order); `client` is
\* self._client: "none", or a ModbusTcpClient that is "connected" or
\* "unconnected"; `producer` is self._producer, 0 for None; `specs`, `i` and
\* `readings` are poll()'s locals; `raw` and `message` are what the last
\* poll() and transform() returned. History: `cycle` the loop cycle, `calls`
\* and `stages` the stages called and completed in it, `last` how the last
\* call ended, `reads` the reads the current poll() issued, `errors` those
\* answered with an error response, `rawAtCall` what `raw` was when it began,
\* `built` the KafkaProducers constructed, `published` and `reused` whether
\* publish() was ever called and ever found a producer, `delivered` whether
\* the last send reached the broker.
NoLast == [op |-> "none", err |-> "none", address |-> 0]
WorkloadInit(driver0, config, env) ==
  [pc |-> IF driver0 = "main" THEN "connect" ELSE "idle",
   driver |-> driver0, config |-> config, env |-> env,
   client |-> "none", producer |-> 0, specs |-> <<>>, i |-> 0, readings |-> <<>>,
   raw |-> <<>>, message |-> NoMessage, cycle |-> 0, calls |-> <<>>, stages |-> <<>>,
   last |-> NoLast, reads |-> 0, errors |-> 0, rawAtCall |-> <<>>, built |-> 0,
   published |-> FALSE, reused |-> FALSE, delivered |-> "none", health |-> "none"]

\* The call `op` of workload `w` ends: by raising `err`, which ends main()
\* and with it the process, or by returning, after which main() goes on
\* with `next`.
WlEnd(w, op, err, address, next) ==
  [w EXCEPT !.pc = IF w.driver = "api" THEN "idle"
                   ELSE IF err # "none" THEN "crashed" ELSE next,
            !.last = [op |-> op, err |-> err, address |-> address],
            !.stages = IF w.driver = "main" /\ err = "none"
                          /\ op \in {"poll", "transform", "publish"}
                       THEN Append(@, op) ELSE @]

\* The call `op` of workload `w` begins.
WlCall(w, op) ==
  [w EXCEPT !.calls = IF w.driver = "main" THEN Append(@, op) ELSE @]

Min(a, b) == IF a <= b THEN a ELSE b

\* A caller of the adapter's methods makes its next call; the history of
\* its last call is dropped.
WlApiCall ==
  /\ wl.pc = "idle"
  /\ \E op \in {"connect", "poll", "transform", "publish", "health"} :
       wl' = [wl EXCEPT !.pc = op, !.last = NoLast, !.reads = 0, !.errors = 0,
                        !.rawAtCall = <<>>, !.delivered = "none", !.health = "none"]
  /\ UNCHANGED <<gatewayVars, km, kc, fx, loaderVars>>

\* main.py:26 / modbus_tcp_adapter.py:37-48 connect
WlConnect ==
  /\ wl.pc = "connect"
  /\ IF wl.env = "no_pymodbus"
     THEN wl' = WlEnd(wl, "connect", "RuntimeError", 0, "interval")
     ELSE \E ok \in BOOLEAN :
            wl' = WlEnd([wl EXCEPT !.client = IF ok THEN "connected" ELSE "unconnected"],
                        "connect", IF ok THEN "none" ELSE "RuntimeError", 0, "interval")
  /\ UNCHANGED <<gatewayVars, km, kc, fx, loaderVars>>

\* main.py:29 int(raw.get("poll_interval_ms", 1000))
WlInterval ==
  /\ wl.pc = "interval"
  /\ wl' = WlEnd(wl, "interval", IF wl.config.interval = "bad" THEN "ValueError" ELSE "none",
                 0, "poll")
  /\ UNCHANGED <<gatewayVars, km, kc, fx, loaderVars>>

\* main.py:32 / modbus_tcp_adapter.py:50-57 poll up to its loop
WlPollEnter ==
  /\ wl.pc = "poll"
  /\ LET w == [WlCall([wl EXCEPT !.calls = <<>>, !.stages = <<>>], "poll")
                 EXCEPT !.cycle = IF wl.driver = "main" THEN Min(@ + 1, MaxCycles) ELSE @,
                        !.reads = 0, !.errors = 0, !.rawAtCall = wl.raw]
     IN wl' = IF wl.client = "none"
              THEN WlEnd(w, "poll", "RuntimeError", 0, "poll")
              ELSE [w EXCEPT !.pc = "poll_loop", !.i = 1, !.readings = <<>>,
                             !.specs = IterRegisters(wl.config.registers)]
  /\ UNCHANGED <<gatewayVars, km, kc, fx, loaderVars>>

\* modbus_tcp_adapter.py:59-81 one round of poll's loop, and its return
WlPollRead ==
  /\ wl.pc = "poll_loop"
  /\ IF wl.i > Len(wl.specs)
     THEN wl' = WlEnd([wl EXCEPT !.raw = wl.readings, !.readings = <<>>, !.specs = <<>>,
                                 !.i = 0],
                      "poll", "none", 0, StageAfter("poll"))
     ELSE LET spec == wl.specs[wl.i]
          IN \E response \in ReadResponses(spec.address, ReadCount(spec.data_type)) :
               LET a == AfterRead(wl.readings, spec, response)
                   w == [wl EXCEPT !.reads = @ + 1,
                                   !.errors = @ + (IF response.kind = "error" THEN 1 ELSE 0)]
               IN wl' = IF a.err # "none"
                        THEN WlEnd([w EXCEPT !.readings = <<>>, !.specs = <<>>, !.i = 0],
                                   "poll", a.err, a.address, "poll")
                        ELSE [w EXCEPT !.readings = a.readings, !.i = @ + 1]
  /\ UNCHANGED <<gatewayVars, km, kc, fx, loaderVars>>

\* main.py:33 / modbus_tcp_adapter.py:83-106 transform
WlTransform ==
  /\ wl.pc = "transform"
  /\ LET t == Transform(wl.config, wl.raw)
         w == WlCall(wl, "transform")
     IN wl' = WlEnd(IF t.err = "none" THEN [w EXCEPT !.message = t.message] ELSE w,
                    "transform", t.err, 0, StageAfter("transform"))
  /\ UNCHANGED <<gatewayVars, km, kc, fx, loaderVars>>

\* main.py:34 / modbus_tcp_adapter.py:108-125 publish: the import, the
\* construction of the producer when there is none, send and flush. A send
\* that returned may or may not have reached the broker.
WlPublish ==
  /\ wl.pc = "publish"
  /\ LET w == [WlCall(wl, "publish") EXCEPT !.published = TRUE, !.delivered = "none"]
     IN IF wl.env = "no_kafka"
        THEN wl' = WlEnd(w, "publish", "RuntimeError", 0, "poll")
        ELSE \E made \in BOOLEAN, sent \in {"raise", "delivered", "lost"} :
               IF NeedsProducer(wl.producer) /\ ~made
               THEN /\ sent = "raise"
                    /\ wl' = WlEnd(w, "publish", "NoBrokersAvailable", 0, "poll")
               ELSE LET p == IF NeedsProducer(wl.producer)
                             THEN [w EXCEPT !.producer = w.built + 1, !.built = @ + 1]
                             ELSE [w EXCEPT !.reused = TRUE]
                    IN /\ made
                       /\ wl' = IF sent = "raise"
                                THEN WlEnd(p, "publish", "KafkaError", 0, "poll")
                                ELSE WlEnd([p EXCEPT !.delivered = sent], "publish", "none",
                                           0, StageAfter("publish"))
  /\ UNCHANGED <<gatewayVars, km, kc, fx, loaderVars>>

\* main.py:36 time.sleep(poll_interval_ms / 1000)
WlSleep ==
  /\ wl.pc = "sleep"
  /\ wl' = WlEnd(wl, "sleep", IF wl.config.interval = "negative" THEN "ValueError" ELSE "none",
                 0, StageAfter("sleep"))
  /\ UNCHANGED <<gatewayVars, km, kc, fx, loaderVars>>

\* base_adapter.py:32-33 health, which ModbusTcpAdapter inherits: a body
\* that is a docstring only, so the call returns None whatever the adapter
\* has done.
AdapterHealth(w) == "None"

\* base_adapter.py:32-33 one call of adapter.health()
WlHealth ==
  /\ wl.pc = "health"
  /\ wl' = WlEnd([wl EXCEPT !.health = AdapterHealth(wl)], "health", "none", 0, "idle")
  /\ UNCHANGED <<gatewayVars, km, kc, fx, loaderVars>>

\* ------------------------------- one register through _iter_registers, poll
\* Configured addresses around the holding-register base and the ends of the
\* 16-bit range; register words with every byte pattern's corner.
Addresses == {-1, 0, 1, 2, 40000, 40001, 40002, 40003, 65535, 80002}
DataTypes == {"uint16", "float32", "int16", "absent"}
Words == {0, 1, 127, 128, 255, 256, 16456, 32767, 32768, 62915, 65280, 65535}

\* modbus_tcp_adapter.py:129-136 _iter_registers on the item
RegisterIter ==
  /\ fx.pc = "item"
  /\ fx' = [fx EXCEPT !.pc = "spec", !.spec = RegisterSpec(fx.item)]
  /\ UNCHANGED <<gatewayVars, km, kc, wl, loaderVars>>

\* modbus_tcp_adapter.py:59-79 poll()'s loop body on the spec, the device
\* answering with the words at the address
RegisterRead ==
  /\ fx.pc = "spec"
  /\ LET count == ReadCount(fx.spec.data_type)
         registers == SubSeq(fx.window, 1, count)
     IN fx' = [fx EXCEPT !.pc = "read", !.reads = @ + 1,
                         !.readAddress = fx.spec.address, !.count = count,
                         !.registers = registers,
                         !.value = ValueOf(fx.spec.data_type, registers)]
  /\ UNCHANGED <<gatewayVars, km, kc, wl, loaderVars>>

\* ---------------------------------------------- ConfigRepository.load
\* A JSON value as far as load() looks at it. `kind` is "object", "array",
\* "string", "number" or "null"; `keys` are the keys of an object, the
\* elements of an array of strings, or the key names a string contains.
ItemKeys == {"adapter_id", "adapter_type", "config"}
TopKeys == {"gateway_id", "adapters"}

\* The entries of an adapters list: the well-formed adapter objects, an
\* object lacking each one of the keys, and the values that are no object.
JItem(kind, keys, c) == [kind |-> kind, keys |-> keys, value |-> c]
Items ==
  {JItem("object", ItemKeys, c) : c \in AdapterConfig}
  \cup {JItem("object", ItemKeys \ {k}, Cfg("a1", "modbus_tcp", "c1")) : k \in ItemKeys}
  \cup {JItem(k, {}, Cfg("none", "none", "none")) : k \in {"number", "null", "string"}}
  \cup {JItem(k, ItemKeys, Cfg("none", "none", "none")) : k \in {"string", "array"}}

\* The documents: objects with and without each top-level key, whose
\* "adapters" is a list of entries or an object, and the values that are no
\* object.
JDoc(kind, keys, adapters) == [kind |-> kind, keys |-> keys, adapters |-> adapters]
NoList == [kind |-> "object", items |-> <<>>]
Documents ==
  {JDoc("object", TopKeys, [kind |-> "array", items |-> l]) :
     l \in SeqsUpTo(Items, MaxConfigs)}
  \cup {JDoc("object", ks, [kind |-> "array", items |-> <<>>]) : ks \in (SUBSET TopKeys) \ {TopKeys}}
  \cup {JDoc("object", TopKeys, NoList)}
  \cup {JDoc(k, {}, NoList) : k \in {"number", "null", "string", "array"}}
  \cup {JDoc(k, TopKeys, NoList) : k \in {"string", "array"}}

\* The file at the repository's path.
NoDoc == JDoc("null", {}, NoList)
Files ==
  {[state |-> st, raw |-> NoDoc] : st \in {"absent", "directory", "undecodable", "malformed"}}
  \cup {[state |-> "json", raw |-> d] : d \in Documents}

\* How _validate can run: no schema file at the schema path, a schema file
\* but no jsonschema module, or both.
Validators == {"no_schema", "no_validator", "schema"}

\* `key in v` for a JSON value v: a key test on an object, a membership test
\* on an array, a substring test on a string, TypeError on a number or null.
Contains(v, key) ==
  IF v.kind \in {"number", "null"} THEN "TypeError"
  ELSE IF key \in v.keys THEN "true" ELSE "false"

\* config.py:89 all(key in item for key in (...)): the first key that is
\* missing ends it, the first test that raises raises.
AllKeysIn(item) ==
  IF item.kind \in {"number", "null"} THEN "TypeError"
  ELSE IF ItemKeys \subseteq item.keys THEN "true" ELSE "false"

\* config.py:88-90 the loop over raw["adapters"]: the error of the first
\* entry that has one
RECURSIVE CheckItems(_)
CheckItems(items) ==
  IF items = <<>> THEN "none"
  ELSE IF AllKeysIn(Head(items)) = "TypeError" THEN "TypeError"
  ELSE IF AllKeysIn(Head(items)) = "false" THEN "ConfigError"
  ELSE CheckItems(Tail(items))

\* config.py:82-90 the checks of _validate when no schema validation ran
FallbackValidate(raw) ==
  IF Contains(raw, "gateway_id") = "TypeError" THEN "TypeError"
  ELSE IF Contains(raw, "gateway_id") = "false" \/ Contains(raw, "adapters") = "false"
  THEN "ConfigError"
  ELSE IF raw.kind # "object" THEN "AttributeError"
  ELSE IF raw.adapters.kind # "array" THEN "ConfigError"
  ELSE CheckItems(raw.adapters.items)

\* schemas/gateway_config.schema.json under jsonschema.validate: an object
\* with gateway_id and a list of adapter objects that have their three keys.
SchemaAccepts(raw) ==
  /\ raw.kind = "object"
  /\ TopKeys \subseteq raw.keys
  /\ raw.adapters.kind = "array"
  /\ \A i \in 1..Len(raw.adapters.items) :
       raw.adapters.items[i].kind = "object" /\ ItemKeys \subseteq raw.adapters.items[i].keys

\* config.py:68-90 _validate
Validate(raw, validator) ==
  IF validator = "schema"
  THEN IF SchemaAccepts(raw) THEN "none" ELSE "ConfigError"
  ELSE FallbackValidate(raw)

\* config.py:57-64 the AdapterConfig list: item["adapter_id"] raises TypeError
\* on an entry that is a string or a list.
RECURSIVE BuildAdapters(_)
BuildAdapters(items) ==
  IF items = <<>> THEN [err |-> "none", adapters |-> <<>>]
  ELSE IF Head(items).kind # "object" THEN [err |-> "TypeError", adapters |-> <<>>]
  ELSE LET rest == BuildAdapters(Tail(items))
       IN IF rest.err # "none" THEN rest
          ELSE [err |-> "none", adapters |-> <<Head(items).value>> \o rest.adapters]

\* config.py:45-66 load
Load(file, validator) ==
  LET fails(e) == [err |-> e, adapters |-> <<>>]
  IN IF file.state = "absent" THEN fails("ConfigError")
     ELSE IF file.state = "directory" THEN fails("IsADirectoryError")
     ELSE IF file.state = "undecodable" THEN fails("UnicodeDecodeError")
     ELSE IF file.state = "malformed" THEN fails("ConfigError")
     ELSE IF Validate(file.raw, validator) # "none" THEN fails(Validate(file.raw, validator))
     ELSE BuildAdapters(file.raw.adapters.items)

\* config.py:45-66 one call of load()
LoadCall ==
  /\ cf.pc = "call"
  /\ cf' = [cf EXCEPT !.pc = "done", !.result = Load(cf.file, cf.validator)]
  /\ UNCHANGED <<gatewayVars, km, kc, adapterVars>>

\* ------------------------------------------------------ specifications
\* The gateway process as main.py runs it: one start(), the serving loop,
\* stop() from the finally clause, while the health thread serves requests
\* and the workloads live their own lives.
Init == InitOf("main")

Next ==
  \/ StartLoadConfig
  \/ StartKafka
  \/ StartAllEnter
  \/ StartAllIter
  \/ StopEnter
  \/ StopAllIter
  \/ StopKafka
  \/ MainServe
  \/ ProcessExit
  \/ HealthRequest
  \/ HealthRespond
  \/ HealthKafka
  \/ HealthAdapters
  \/ HealthNext
  \/ HealthLookup
  \/ \E n \in ContainerNames : WorkloadCrash(n)
  \/ \E n \in ContainerNames : WorkloadRecover(n)

Spec == Init /\ [][Next]_vars

\* The runtime's API under any single caller: start(), stop() and restart()
\* in any order and number, one call at a time.
InitApi == InitOf("api")

NextApi ==
  \/ StartLoadConfig
  \/ StartKafka
  \/ StartAllEnter
  \/ StartAllIter
  \/ StopEnter
  \/ StopAllIter
  \/ StopKafka
  \/ \E id \in AdapterIds : Restart(id)
  \/ ApiContinue
  \/ \E n \in ContainerNames : WorkloadCrash(n)
  \/ \E n \in ContainerNames : WorkloadRecover(n)

SpecApi == InitApi /\ [][NextApi]_vars

\* A KafkaManager constructed with any bootstrap string and then called by
\* one caller: start(), health() and stop() in any order and number.
InitKafka ==
  /\ driver = "kafka"
  /\ sdkInstalled = TRUE
  /\ pc = "off"
  /\ configs = <<>>
  /\ idx = 0
  /\ elapsed = 0
  /\ todo = <<>>
  /\ lastResult = NoResult
  /\ client = FALSE
  /\ slots = <<>>
  /\ world = [n \in ContainerNames |-> NoContainer]
  /\ nextCid = 1
  /\ hpc = "off"
  /\ h = NoHealth
  /\ hResult = NoHealthResult
  /\ log = NoLog
  /\ km = NoKafkaManager
  /\ kc \in {[NoKafkaCall EXCEPT !.pc = "new", !.arg = b] : b \in Bootstraps}
  /\ wl = NoWorkload
  /\ fx = NoRegister
  /\ cf = NoLoad

NextKafka ==
  \/ KafkaNew
  \/ KafkaStartRound
  \/ KafkaHealthRound
  \/ KafkaStopCall
  \/ KafkaForget

SpecKafka == InitKafka /\ [][NextKafka]_vars

\* One configured register of any address and type, on a device holding any
\* two words at its address: _iter_registers, then poll()'s read and decode.
InitRegister ==
  /\ driver = "register"
  /\ sdkInstalled = TRUE
  /\ pc = "off"
  /\ configs = <<>>
  /\ idx = 0
  /\ elapsed = 0
  /\ todo = <<>>
  /\ lastResult = NoResult
  /\ client = FALSE
  /\ slots = <<>>
  /\ world = [n \in ContainerNames |-> NoContainer]
  /\ nextCid = 1
  /\ hpc = "off"
  /\ h = NoHealth
  /\ hResult = NoHealthResult
  /\ log = NoLog
  /\ km = NoKafkaManager
  /\ kc = NoKafkaCall
  /\ wl = NoWorkload
  /\ cf = NoLoad
  /\ fx \in {[pc |-> "item", item |-> Item(a, "t", ty), window |-> <<w0, w1>>,
              spec |-> RegisterSpec(Item(0, "t", "absent")), reads |-> 0,
              readAddress |-> 0, count |-> 0, registers |-> <<>>, value |-> IntValue(0)] :
               a \in Addresses, ty \in DataTypes, w0 \in Words, w1 \in Words}

NextRegister ==
  \/ RegisterIter
  \/ RegisterRead

SpecRegister == InitRegister /\ [][NextRegister]_vars

\* The adapter workload: main.py running connect and the loop of poll,
\* transform and publish until a call raises, or a caller of the adapter's
\* methods calling them in any order (the poll interval is main.py's alone).
InitWorkload ==
  /\ driver = "workload"
  /\ sdkInstalled = TRUE
  /\ pc = "off"
  /\ configs = <<>>
  /\ idx = 0
  /\ elapsed = 0
  /\ todo = <<>>
  /\ lastResult = NoResult
  /\ client = FALSE
  /\ slots = <<>>
  /\ world = [n \in ContainerNames |-> NoContainer]
  /\ nextCid = 1
  /\ hpc = "off"
  /\ h = NoHealth
  /\ hResult = NoHealthResult
  /\ log = NoLog
  /\ km = NoKafkaManager
  /\ kc = NoKafkaCall
  /\ wl \in {WorkloadInit("main", c, e) : c \in WorkloadConfigs, e \in WorkloadEnvs}
           \cup {WorkloadInit("api", c, e) :
                   c \in {k \in WorkloadConfigs : k.interval = "ok"}, e \in WorkloadEnvs}
  /\ fx = NoRegister
  /\ cf = NoLoad

NextWorkload ==
  \/ WlApiCall
  \/ WlConnect
  \/ WlInterval
  \/ WlPollEnter
  \/ WlPollRead
  \/ WlTransform
  \/ WlPublish
  \/ WlSleep
  \/ WlHealth

SpecWorkload == InitWorkload /\ [][NextWorkload]_vars

\* ConfigRepository.load on any file, with and without schema validation.
InitConfig ==
  /\ driver = "config"
  /\ sdkInstalled = TRUE
  /\ pc = "off"
  /\ configs = <<>>
  /\ idx = 0
  /\ elapsed = 0
  /\ todo = <<>>
  /\ lastResult = NoResult
  /\ client = FALSE
  /\ slots = <<>>
  /\ world = [n \in ContainerNames |-> NoContainer]
  /\ nextCid = 1
  /\ hpc = "off"
  /\ h = NoHealth
  /\ hResult = NoHealthResult
  /\ log = NoLog
  /\ km = NoKafkaManager
  /\ kc = NoKafkaCall
  /\ wl = NoWorkload
  /\ fx = NoRegister
  /\ cf \in {[pc |-> "call", file |-> f, validator |-> v,
              result |-> [err |-> "none", adapters |-> <<>>]] :
               f \in Files, v \in Validators}

NextConfig == LoadCall

SpecConfig == InitConfig /\ [][NextConfig]_vars

\* ================================================================ claims
StartReturned == pc = "returned" /\ lastResult.op = "start"
StopReturned == pc = "returned" /\ lastResult.op = "stop"
RestartReturned == pc = "returned" /\ lastResult.op = "restart"
HealthReturned == hpc = "done" /\ hResult.kind = "snapshot"
IdsAtCall == {p[1] : p \in log.tableAtCall}

\* C1: in every execution of start(), load() has returned before start()
\* makes its first broker probe, kafka.start() has returned successfully
\* before start_all is entered or launches, restarts or adopts a workload,
\* and no container is created by a start() whose broker wait has not
\* succeeded. (Checked under SpecApi.)
C1_StartOrder ==
  log.op = "start" =>
    /\ log.probes > 0 => log.loaded
    /\ log.ready => log.loaded /\ log.probes > 0
    /\ log.inStartAll => log.ready
    /\ log.touched # {} => log.ready
    /\ nextCid > log.cidAtCall => log.ready

\* C1 witness: a start() that found the broker on its second probe and has
\* launched a fresh workload.
C1_Witness ==
  /\ log.op = "start"
  /\ log.loaded /\ log.ready /\ log.probes = 2
  /\ log.touched # {}
  /\ nextCid > log.cidAtCall

C3_StopAttemptsBoth ==
  StopReturned => lastResult.err = "none" /\ log.kafkaStop

\* C4: a health_snapshot() call during which start_all or stop_all wrote
\* the tracking table returns a snapshot and does not fail. (Checked under
\* Spec; the code violates it.)
C4_HealthConcurrentSafe ==
  hpc = "done" /\ h.mutated => hResult.kind = "snapshot"

\* C5: the health endpoint never throws, whatever the state of the
\* collaborators: a health_snapshot() call that no write to the table
\* interfered with returns a snapshot, also when the container-engine
\* client cannot be constructed. (Checked under Spec; the code violates it.)
C5_HealthNeverThrows ==
  hpc = "done" /\ ~h.mutated => hResult.kind = "snapshot"

OverlapIdx == {i \in 1..Len(configs) : configs[i].adapter_id \in IdsAtCall}
FirstOverlap == CHOOSE i \in OverlapIdx : \A j \in OverlapIdx : i <= j
EntriesKept == \A p \in log.tableAtCall : p \in TableOf(slots) /\ p[1] \notin log.touched

\* C6 as stated: a start_all called with a config whose adapter_id is
\* tracked fails with the already-running error, the entry keeps its handle
\* and nothing is launched, restarted or adopted for that id. (Checked under
\* SpecApi; violated when an earlier config of the list fails first.)
C6_Original ==
  StartReturned /\ log.inStartAll /\ OverlapIdx # {} =>
    lastResult.err = "AdapterAlreadyRunning" /\ EntriesKept

\* C6 amended: a start_all called with a config whose adapter_id is tracked
\* fails: with the already-running error naming that id when its loop
\* reaches that config, or before with the error of a config that stands
\* earlier in the list (unsupported type, launch failure, or already-running
\* for an id the list repeats). All through the call every entry tracked
\* when it began keeps its handle, and _ensure_container is never called for
\* its adapter_id.
C6_AlreadyTracked ==
  log.op = "start" =>
    /\ EntriesKept
    /\ StartReturned /\ log.inStartAll /\ OverlapIdx # {} =>
         /\ lastResult.err \in
              {"AdapterAlreadyRunning", "UnsupportedAdapterType", "DockerAPIError"}
         /\ log.failIdx \in 1..FirstOverlap
         /\ lastResult.id = configs[log.failIdx].adapter_id
         /\ log.failIdx = FirstOverlap => lastResult.err = "AdapterAlreadyRunning"
         /\ lastResult.err # "AdapterAlreadyRunning" => lastResult.id \notin IdsAtCall

\* C6 witness: a start_all launched its first config and failed at its
\* second, whose id was tracked when the call began.
C6_Witness ==
  /\ StartReturned
  /\ lastResult.err = "AdapterAlreadyRunning"
  /\ lastResult.id \in IdsAtCall
  /\ log.failIdx = 2
  /\ log.touched # {}

C8_AdaptersHealth ==
  HealthReturned =>
    LET a == hResult.snap.adapters
    IN /\ a.status \in {"healthy", "degraded"}
       /\ a.status = "healthy" <=> \A id \in DOMAIN a.adapters : a.adapters[id] = "running"
       /\ DOMAIN a.adapters = DOMAIN h.obs
       /\ \A id \in DOMAIN a.adapters :
            a.adapters[id] = IF h.obs[id] = "lookup_failed" THEN "missing" ELSE h.obs[id]
       /\ ~h.mutated => DOMAIN a.adapters = h.tracked

\* C8 witness: health() returned degraded for two tracked workloads, one
\* running and one whose lookup failed.
C8_Witness ==
  /\ HealthReturned
  /\ ~h.mutated
  /\ hResult.snap.adapters.status = "degraded"
  /\ DOMAIN hResult.snap.adapters.adapters = {"a1", "a2"}
  /\ hResult.snap.adapters.adapters["a1"] = "running"
  /\ hResult.snap.adapters.adapters["a2"] = "missing"

\* C9: the snapshot health_snapshot() returns carries an overall status,
\* healthy if and only if the broker probe reports healthy and every
\* tracked adapter reports running, else degraded. (Checked under Spec; the
\* code's snapshot has no such field.)
C9_SnapshotOverall ==
  HealthReturned =>
    LET snap == hResult.snap
    IN /\ "overall" \in DOMAIN snap
       /\ snap.overall \in {"healthy", "degraded"}
       /\ snap.overall = "healthy" <=>
            /\ snap.kafka.status = "healthy"
            /\ \A id \in DOMAIN snap.adapters.adapters :
                 snap.adapters.adapters[id] = "running"

\* C10: stop_all always completes: whenever a stop() is over, stop_all has
\* returned, _stop_container was called for every handle that was tracked
\* and the table is empty. (Checked under SpecApi; the code violates it when
\* the container-engine client cannot be constructed.)
C10_StopAllCompletes ==
  StopReturned =>
    /\ log.adaptersDone
    /\ \A p \in log.tableAtCall : p[2] \in log.stopAttempted
    /\ Tracked = {}

KafkaStartReturned == kc.pc = "returned" /\ kc.op = "start"
KafkaHealthReturned == kc.pc = "returned" /\ kc.op = "health"

\* C11: every KafkaManager.start() ends in one of two ways: it returns as
\* soon as one probe has connected (the only probe that did), or, no probe
\* having connected, it fails with KafkaError once its timeout has elapsed.
C11_StartOutcomes ==
  KafkaStartReturned =>
    \/ kc.err = "none" /\ kc.hits = 1 /\ ~kc.timedOut
    \/ kc.err = "KafkaError" /\ kc.hits = 0 /\ kc.timedOut

\* C12: health() of every constructed KafkaManager returns a status and
\* raises nothing: healthy when a probe connected, failed when none did.
C12_KafkaHealthReturns ==
  KafkaHealthReturned =>
    /\ kc.err = "none"
    /\ kc.health.status = (IF kc.hits > 0 THEN "healthy" ELSE "failed")

\* The places of the colons of the constructor's argument, and what stands
\* after the last of them.
ColonsOfArg == {i \in 1..Len(kc.arg) : kc.arg[i] = ":"}
LastColonOfArg == CHOOSE i \in ColonsOfArg : \A j \in ColonsOfArg : j <= i
PortPartOfArg == SubSeq(kc.arg, LastColonOfArg + 1, Len(kc.arg))
HostPartOfArg == SubSeq(kc.arg, 1, LastColonOfArg - 1)
NotNumeric(str) ==
  \/ \A i \in 1..Len(str) : ~IsDigit(str[i])
  \/ \E i \in 1..Len(str) : ~IsDigit(str[i]) /\ str[i] \notin {"+", "-", " ", "_"}
AllDigits(str) == str # <<>> /\ \A i \in 1..Len(str) : IsDigit(str[i])

C18_AddressOffset ==
  fx.pc \in {"spec", "read"} =>
    LET a == fx.item.address
        offset == fx.spec.address
    IN /\ a >= 40001 => offset = a - 40001
       /\ a < 40001 => offset = a
       /\ a >= 0 => offset >= 0
       /\ a \in {0, 40001} => offset = 0
       /\ fx.pc = "read" => fx.readAddress = offset

\* The register configured as 40001 was read at offset 0.
C18_Witness ==
  /\ fx.pc = "read"
  /\ fx.item.address = 40001
  /\ fx.readAddress = 0
  /\ fx.reads = 1

\* C19: a uint16 spec is read with one read of one register and yields that
\* register; a float32 spec is read with one read of two registers r0, r1 and
\* yields the single whose 32 bits are r0 * 65536 + r1: sign the top bit of
\* r0, exponent the next eight bits, fraction the low seven bits of r0
\* followed by r1.
C19_Decode ==
  fx.pc = "read" =>
    LET r0 == fx.window[1]
        r1 == fx.window[2]
    IN /\ fx.reads = 1
       /\ fx.spec.data_type = "uint16" =>
            fx.count = 1 /\ fx.registers = <<r0>> /\ fx.value = IntValue(r0)
       /\ fx.spec.data_type = "float32" =>
            /\ fx.count = 2
            /\ fx.registers = <<r0, r1>>
            /\ fx.value.kind = "float"
            /\ fx.value.sign = r0 \div 32768
            /\ fx.value.exponent = (r0 \div 128) % 256
            /\ fx.value.fraction = (r0 % 128) * 65536 + r1

\* Registers [0x4048, 0xF5C3] were decoded as 0x4048F5C3: sign 0, exponent
\* 0x80, fraction 0x48F5C3.
C19_Witness ==
  /\ fx.pc = "read"
  /\ fx.spec.data_type = "float32"
  /\ fx.registers = <<16456, 62915>>
  /\ fx.value = [kind |-> "float", int |-> 0, sign |-> 0, exponent |-> 128,
                 fraction |-> 4781507]

Stages == <<"poll", "transform", "publish">>
IsPrefix(s, t) == Len(s) <= Len(t) /\ s = SubSeq(t, 1, Len(s))

\* What holds of main.py's loop in every state: the stages of a cycle are
\* called in the order poll, transform, publish, each at most once and each
\* only after the one before it returned; a cycle that reaches its sleep has
\* made all three; and a call that raised has ended the workload.
CycleInOrder ==
  wl.driver = "main" =>
    /\ IsPrefix(wl.calls, Stages)
    /\ IsPrefix(wl.stages, wl.calls)
    /\ Len(wl.calls) <= Len(wl.stages) + 1
    /\ Len(wl.calls) = Len(wl.stages) + 1 =>
         wl.pc \in {"poll_loop", "crashed"}
    /\ (wl.pc = "sleep" \/ (wl.pc = "poll" /\ wl.cycle >= 1)) => wl.stages = Stages
    /\ wl.last.err # "none" <=> wl.pc = "crashed"
    /\ wl.pc = "crashed" /\ wl.last.op \in {"poll", "transform", "publish"} =>
         wl.calls = Append(wl.stages, wl.last.op)

\* C15: every cycle of the workload runs poll, then transform, then publish,
\* one publish per cycle and none when poll or transform failed; a failure of
\* connect or of a stage ends the workload with that error: nothing runs
\* after it.
C15_CycleOrder == []CycleInOrder /\ [][wl.pc # "crashed"]_vars

\* The second cycle's poll failed after a first cycle that published: the
\* workload ended there, nothing transformed or published in that cycle.
C15_Witness ==
  /\ wl.driver = "main"
  /\ wl.cycle = 2
  /\ wl.pc = "crashed"
  /\ wl.last = [op |-> "poll", err |-> "ReadError", address |-> 0]
  /\ wl.calls = <<"poll">>
  /\ wl.stages = <<>>
  /\ wl.built = 1

\* C16: a poll() in which a read was answered with an error response raises
\* the read error naming the address of that read, hands no readings to its
\* caller (what the caller holds is what it held before) and, under main.py,
\* nothing of that cycle is transformed or published; a poll() that returned
\* has read every configured register without an error response.
C16_PollAllOrNothing ==
  wl.last.op = "poll" =>
    /\ wl.last.err = "none" =>
         wl.errors = 0 /\ wl.reads = Len(wl.config.registers)
    /\ wl.errors > 0 =>
         /\ wl.errors = 1
         /\ wl.last.err = "ReadError"
         /\ wl.last.address = NormalizeAddress(wl.config.registers[wl.reads].address)
         /\ wl.raw = wl.rawAtCall
         /\ wl.readings = <<>>
         /\ wl.driver = "main" => wl.pc = "crashed" /\ wl.stages = <<>>

\* The second register's read failed after the first was read.
C16_Witness ==
  /\ wl.last.op = "poll"
  /\ wl.last.err = "ReadError"
  /\ wl.reads = 2
  /\ wl.errors = 1
  /\ wl.config.registers = <<Item(0, "t", "float32"), Item(40004, "p", "float32")>>
  /\ wl.last.address = 3

\* C17: the message transform() makes of poll()'s readings has one reading
\* per configured register, in the configured order, each GOOD and without
\* device time, and the configured asset_id.
C17_OneReadingPerRegister ==
  (wl.driver = "main" /\ wl.last.op = "transform" /\ wl.last.err = "none") =>
    LET registers == wl.config.registers
        m == wl.message
    IN /\ m.asset_id = wl.config.asset_id
       /\ Len(m.readings) = Len(registers)
       /\ \A i \in 1..Len(registers) :
            /\ m.readings[i].parameter = registers[i].param
            /\ m.readings[i].quality = "GOOD"
            /\ m.readings[i].device_time = "null"

\* What holds of self._producer in every state: None until publish() is
\* called, and never a second producer.
ProducerOnce ==
  /\ wl.pc # "off" => wl.built <= 1
  /\ wl.pc # "off" /\ wl.producer # 0 => wl.producer = 1 /\ wl.built = 1
  /\ wl.pc # "off" /\ ~wl.published => wl.producer = 0 /\ wl.built = 0
  /\ wl.pc # "off" /\ wl.reused => wl.built = 1

\* C20: the producer is constructed in the first publish() that manages to,
\* never before a publish(), and once it exists no call constructs another
\* or replaces it.
C20_ProducerOnce ==
  /\ []ProducerOnce
  /\ [][wl.pc # "off" /\ wl.producer # 0 =>
          wl'.producer = wl.producer /\ wl'.built = wl.built]_vars

\* A publish() found the producer an earlier publish() had constructed, and
\* returned.
C20_Witness ==
  /\ wl.pc # "off"
  /\ wl.reused
  /\ wl.last = [op |-> "publish", err |-> "none", address |-> 0]
  /\ wl.producer = 1
  /\ wl.built = 1

\* C21: a publish() that returned has had its message delivered to the
\* broker; an undelivered send makes publish() raise.
C21_PublishDelivered ==
  (wl.pc # "off" /\ wl.last.op = "publish" /\ wl.last.err = "none") =>
    wl.delivered = "delivered"

LoadReturned == cf.pc = "done" /\ cf.result.err = "none"
ItemsOfFile == cf.file.raw.adapters.items

\* C22: the adapters of every GatewayConfig load() returns have pairwise
\* distinct adapter_id values and stand in the order of the file.
C22_DistinctIds ==
  LoadReturned =>
    /\ Len(cf.result.adapters) = Len(ItemsOfFile)
    /\ \A i \in 1..Len(ItemsOfFile) : cf.result.adapters[i] = ItemsOfFile[i].value
    /\ \A i, j \in 1..Len(cf.result.adapters) :
         i # j => cf.result.adapters[i].adapter_id # cf.result.adapters[j].adapter_id

\* C23: load() returns or raises ConfigError, nothing else; an absent file,
\* content that is not JSON, a document without gateway_id or adapters and
\* an adapter entry without one of its keys give ConfigError, with and
\* without schema validation; a returned document has every required field.
C23_OnlyConfigError ==
  cf.pc = "done" =>
    /\ cf.result.err \in {"none", "ConfigError"}
    /\ cf.file.state \in {"absent", "malformed"} => cf.result.err = "ConfigError"
    /\ LoadReturned =>
         /\ cf.file.raw.kind = "object"
         /\ TopKeys \subseteq cf.file.raw.keys
         /\ \A i \in 1..Len(ItemsOfFile) :
              ItemsOfFile[i].kind = "object" /\ ItemKeys \subseteq ItemsOfFile[i].keys

\* C24: when start_all fails on a config of unsupported type, no workload is
\* launched or tracked for that config, and every other config of the list
\* whose type is supported (and whose adapter was not tracked before the
\* call) has its workload launched and tracked.
C24_UnsupportedOnlyThatAdapter ==
  (StartReturned /\ lastResult.err = "UnsupportedAdapterType") =>
    /\ lastResult.id \notin log.touched
    /\ \A i \in 1..Len(configs) :
         (/\ ImageFor(configs[i].adapter_type) # "none"
          /\ configs[i].adapter_id # lastResult.id
          /\ configs[i].adapter_id \notin IdsAtCall)
           => configs[i].adapter_id \in Tracked

PipelineStates ==
  {"DISCONNECTED", "CONNECTED", "POLLING", "PUBLISHING", "STOPPED", "FAILED"}

\* C25: whatever the adapter has done before, a health() call returns one of
\* the pipeline's state-machine states, the one it was last known to be in
\* (not DISCONNECTED once a session is established, not CONNECTED without
\* one), and performs no register read and no broker operation.
C25_HealthReportsState ==
  (wl.pc # "off" /\ wl.last.op = "health") =>
    /\ wl.health \in PipelineStates
    /\ wl.client = "connected" => wl.health # "DISCONNECTED"
    /\ wl.client # "connected" => wl.health \notin {"CONNECTED", "POLLING", "PUBLISHING"}
    /\ wl.reads = 0
    /\ wl.delivered = "none"

\* C26: a poll() made while no session is established (before any connect(),
\* or after a connect() that failed) has ended by raising and has issued no
\* register read.
C26_PollOnlyConnected ==
  (wl.pc # "off" /\ wl.last.op = "poll" /\ wl.client # "connected") =>
    /\ wl.last.err # "none"
    /\ wl.reads = 0

StartFailedAt == IF StartReturned /\ lastResult.err # "none" THEN log.failIdx ELSE 0

\* the workload of `id` is tracked under the handle the engine holds for its
\* name, and nobody has stopped it
StillRunning(id) ==
  /\ id \in Tracked
  /\ world[ContainerName(id)].present
  /\ world[ContainerName(id)].cid = HandleOf(id)
  /\ world[ContainerName(id)].status # "exited"

\* C27: when start_all has failed at some config, the workloads of the
\* earlier configs of the call are still tracked and running and no stop was
\* attempted on any workload; the step that follows the failed start() in
\* the entrypoint is the end of the process, which stops and untracks
\* nothing.
C27_NoRollback ==
  /\ [](StartFailedAt > 1 =>
          /\ \A i \in 1..(StartFailedAt - 1) : StillRunning(configs[i].adapter_id)
          /\ log.stopAttempted = {}
          /\ ~log.adaptersDone /\ ~log.kafkaStop)
  /\ [][(StartReturned /\ lastResult.err # "none" /\ pc' # pc) =>
          (pc' = "exited" /\ slots' = slots /\ world' = world)]_vars

C27_Witness ==
  /\ StartFailedAt = 2
  /\ lastResult.err \in {"DockerAPIError", "UnsupportedAdapterType", "AdapterAlreadyRunning"}
  /\ StillRunning(configs[1].adapter_id)
  /\ world[ContainerName(configs[1].adapter_id)].status = "running"

\* C28: the tracking table is written only by a step of start_all's loop, of
\* stop_all's loop or of restart; no step of a health request changes it;
\* every status a request reports is what the engine gave for the entry's
\* handle at that lookup (or the lookup's failure), and nothing of a request
\* is kept once it is answered.
C28_TableFrame ==
  /\ [][slots' # slots =>
          /\ \/ pc \in {"start_all_loop", "stop_all_loop"}
             \/ pc = "idle" /\ lastResult'.op = "restart"
          /\ hpc' = hpc]_vars
  /\ [][hpc' # hpc => slots' = slots]_vars
  /\ [][(hpc = "lookup" /\ hpc' = "iter") =>
          /\ h.cur[1] \in DOMAIN h'.obs
          /\ h'.obs[h.cur[1]] \in
               {"lookup_failed"} \cup {world[n].status : n \in NameOfCid(world, h.cur[2])}]_vars
  /\ [](hpc = "idle" => h = NoHealth /\ hResult = NoHealthResult)

\* C28 witness: a request answered with the statuses of two tracked
\* workloads, one of them restarting at its lookup, and the table as it was.
C28_Witness ==
  /\ HealthReturned
  /\ ~h.mutated
  /\ Tracked = {"a1", "a2"}
  /\ h.tracked = Tracked
  /\ DOMAIN h.obs = Tracked
  /\ \E id \in Tracked : h.obs[id] = "restarting"

Runs(c) == c.present /\ c.status \in {"running", "restarting"}

\* C29: between calls, every workload the supervisor launched or adopted
\* that still runs is in the tracking table under its handle; when stop()
\* has returned, no workload that was tracked when it began still runs.
C29_NoOrphans ==
  /\ pc \in {"idle", "returned"} =>
       \A id \in AdapterIds :
         Runs(world[ContainerName(id)]) =>
           <<id, world[ContainerName(id)].cid>> \in TableOf(slots)
  /\ (StopReturned /\ lastResult.err = "none") =>
       \A p \in log.tableAtCall : \A n \in NameOfCid(world, p[2]) : ~Runs(world[n])

\* C30: when start() has returned, the workload tracked for each config of
\* the call exists under the adapter's name with the handle in the table
\* and has the configuration of that config in its environment.
C30_ConfigApplied ==
  (StartReturned /\ lastResult.err = "none") =>
    \A i \in 1..Len(configs) :
      LET c == world[ContainerName(configs[i].adapter_id)]
      IN /\ configs[i].adapter_id \in Tracked
         /\ c.present
         /\ c.cid = HandleOf(configs[i].adapter_id)
         /\ c.env = configs[i].config

\* AdapterManager.health() is running, or about to run, on a table that is
\* empty and has been since the call began.
HealthOnEmptyTable ==
  /\ Tracked = {}
  /\ \/ hpc = "adapters"
     \/ hpc = "iter" /\ h.used = 0 /\ ~h.mutated

\* C31: a health() call that runs on an empty tracking table (before
\* start_all has tracked anything, while start() loads the config or waits
\* for the broker, after stop_all) ends by reporting the adapters component
\* healthy with an empty adapters map.
C31_EmptyTableHealthy ==
  [][(HealthOnEmptyTable /\ hpc' = "done") =>
       /\ hResult'.kind = "snapshot"
       /\ hResult'.snap.adapters = [status |-> "healthy", adapters |-> NoStates]]_vars

====
